---------------------------- MODULE Spec2Model ----------------------------
(***************************************************************************)
(* Hostel Complaint Management API (src/app.py): the complaint collection, *)
(* the request handlers that read and write it, and the replies they send. *)
(*                                                                         *)
(* Every handler is an asyncio coroutine: it runs without interruption     *)
(* between two awaits, and each awaited Motor call is one operation on the *)
(* collection.  A handler is therefore modelled by one action per awaited  *)
(* collection operation, together with the handler code that runs after    *)
(* that operation returns and before the next one is awaited.  The code    *)
(* that runs before the first await (update_complaint_status builds        *)
(* update_data, reading the clock) is the action that accepts the request. *)
(* Handlers with one collection operation (get_complaint, delete_complaint,*)
(* get_all_complaints, get_dashboard_stats) are one action.  The storage   *)
(* adapter is taken to be available: no collection operation raises.       *)
(***************************************************************************)
EXTENDS Integers, Sequences, FiniteSets, Bags

(* ------------------------------ bounds -------------------------------- *)

\* requests accepted in one run
MaxReqs == 3
\* largest id a client asks for in get, update and delete
MaxId == 2
\* the clock runs from 1 to MaxClock milliseconds
MaxClock == 2

(* ------------------------------ values -------------------------------- *)

\* ComplaintCreate bodies sent by clients
Inputs ==
  { [hostel |-> "JAH", room |-> "101", type |-> "Plumbing",
     description |-> "Leaking tap"],
    [hostel |-> "IBADAN", room |-> "202", type |-> "Electrical",
     description |-> "No light"] }

\* ComplaintUpdate.status is any string; three are used by convention
Statuses == {"Pending", "In Progress", "Resolved"}

Ids == 1..MaxId

\* Optional[int]: None is the empty sequence, a value t is <<t>>
None == << >>

Some(t) == << t >>

VARIABLES
  store,     \* the complaints collection, in natural (insertion) order
  clock,     \* int(datetime.now().timestamp() * 1000)
  inflight,  \* requests suspended at an await (a bag: two may be alike)
  nreq,      \* requests accepted so far
  issued,    \* ids of the documents inserted so far, in insertion order
  reply      \* the HTTP response sent last

vars == << store, clock, inflight, nreq, issued, reply >>

(* --------------------------- the collection --------------------------- *)

\* collection.find_one({"id": id}): position of the first match, 0 if none
find_one(s, id) ==
  IF \E i \in 1..Len(s) : s[i].id = id
  THEN CHOOSE i \in 1..Len(s) :
         /\ s[i].id = id
         /\ \A j \in 1..(i - 1) : s[j].id # id
  ELSE 0

Has(s, id) == find_one(s, id) # 0

RECURSIVE MaxOf(_)
MaxOf(S) ==
  IF S = {} THEN 0
  ELSE LET x == CHOOSE y \in S : TRUE
           m == MaxOf(S \ {x})
       IN IF x > m THEN x ELSE m

RECURSIVE MinOf(_)
MinOf(S) ==
  IF S = {} THEN 0
  ELSE LET x == CHOOSE y \in S : TRUE
       IN IF S = {x} THEN x
          ELSE LET m == MinOf(S \ {x}) IN IF x < m THEN x ELSE m

\* get_next_complaint_id sorting ascending, sort=[("id", 1)]: the smallest
\* stored id plus one
get_next_complaint_id_ascending(s) ==
  IF Len(s) = 0 THEN 1
  ELSE MinOf({ s[i].id : i \in 1..Len(s) }) + 1

\* get_next_complaint_id: find_one(sort=[("id", -1)]), then id + 1, or 1
get_next_complaint_id(s) ==
  IF Len(s) = 0 THEN 1
  ELSE MaxOf({ s[i].id : i \in 1..Len(s) }) + 1

\* complaint_helper: the eight response fields of a document (_id dropped)
complaint_helper(c) ==
  [id |-> c.id, hostel |-> c.hostel, room |-> c.room, type |-> c.type,
   description |-> c.description, status |-> c.status,
   submitted |-> c.submitted, resolved |-> c.resolved]

\* the sequence s without its i-th element
RemoveAt(s, i) ==
  [k \in 1..(Len(s) - 1) |-> IF k < i THEN s[k] ELSE s[k + 1]]

(* ----------------------------- responses ------------------------------ *)

\* a handler's return value, sent with HTTP 200
Return(op, id, body) ==
  [op |-> op, id |-> id, exc |-> "", code |-> 200, body |-> body,
   detail |-> ""]

\* raise HTTPException(status_code=code, detail=detail)
HTTPException(op, id, code, detail) ==
  [op |-> op, id |-> id, exc |-> "HTTPException", code |-> code,
   body |-> << >>, detail |-> detail]

\* complaint_helper(None): None["id"] raises TypeError
TypeError(op, id) ==
  [op |-> op, id |-> id, exc |-> "TypeError", code |-> 0, body |-> << >>,
   detail |-> "'NoneType' object is not subscriptable"]

\* "except Exception as e: raise HTTPException(status_code=500, ...)":
\* every handler body runs inside this try.  HTTPException is itself a
\* subclass of Exception, so an HTTPException raised in the body is caught
\* here as well and replaced by the 500 one.
except_Exception(r) ==
  IF r.exc = "" THEN r
  ELSE HTTPException(r.op, r.id, 500, r.detail)

NoReply ==
  [op |-> "none", id |-> 0, exc |-> "", code |-> 0, body |-> << >>,
   detail |-> ""]

(* ------------------------- documents and $set ------------------------- *)

\* complaint_doc stamping resolved with the creation time
complaint_doc_resolved_at_creation(id, inp, now) ==
  [id |-> id, hostel |-> inp.hostel, room |-> inp.room, type |-> inp.type,
   description |-> inp.description, status |-> "Pending",
   submitted |-> now, resolved |-> Some(now)]

\* complaint_doc of create_complaint
complaint_doc(id, inp, now) ==
  [id |-> id, hostel |-> inp.hostel, room |-> inp.room, type |-> inp.type,
   description |-> inp.description, status |-> "Pending",
   submitted |-> now, resolved |-> None]

\* update_data without the elif branch: a status other than "Resolved"
\* leaves the resolved field out of the $set
update_data_without_clearing(status, now) ==
  IF status = "Resolved"
  THEN [status |-> status, resolved |-> Some(now)]
  ELSE [status |-> status]

\* update_data of update_complaint_status
update_data(status, now) ==
  IF status = "Resolved"
  THEN [status |-> status, resolved |-> Some(now)]
  ELSE [status |-> status, resolved |-> None]

\* {"$set": update_data} applied to one document: the keys of update_data
\* are overwritten, every other field is kept
Set(c, data) ==
  [k \in DOMAIN c |-> IF k \in DOMAIN data THEN data[k] ELSE c[k]]

\* result.modified_count of update_one: 1 when a document matched and the
\* $set changed one of its fields, 0 when none matched or nothing changed
modified_count(s, id, data) ==
  LET i == find_one(s, id)
  IN IF i = 0 THEN 0
     ELSE IF Set(s[i], data) = s[i] THEN 0 ELSE 1

\* update_one with upsert=True: when no document matches, one holding the
\* filter and the $set fields is inserted
update_one_upsert(s, id, data) ==
  LET i == find_one(s, id)
  IN IF i = 0
     THEN Append(s, [oid |-> 0, id |-> id, status |-> data.status,
                     resolved |-> data.resolved])
     ELSE [s EXCEPT ![i] = Set(s[i], data)]

\* update_one with the filter left empty: the first document is updated,
\* whatever its id
update_one_without_filter(s, id, data) ==
  IF Len(s) = 0 THEN s ELSE [s EXCEPT ![1] = Set(s[1], data)]

\* the collection after update_one({"id": id}, {"$set": data})
update_one(s, id, data) ==
  LET i == find_one(s, id)
  IN IF i = 0 THEN s ELSE [s EXCEPT ![i] = Set(s[i], data)]

\* the collection after delete_one({"id": id})
delete_one(s, id) ==
  LET i == find_one(s, id)
  IN IF i = 0 THEN s ELSE RemoveAt(s, i)

\* the collection after insert_one(doc); oid is the _id the driver adds
insert_one(s, doc, oid) ==
  Append(s, [oid |-> oid, id |-> doc.id, hostel |-> doc.hostel,
             room |-> doc.room, type |-> doc.type,
             description |-> doc.description, status |-> doc.status,
             submitted |-> doc.submitted, resolved |-> doc.resolved])

(* ------------------------- handlers as results ------------------------ *)

\* get_complaint on collection s
get_complaint_result(s, id) ==
  LET i == find_one(s, id)
  IN except_Exception(
       IF i # 0 THEN Return("get", id, << complaint_helper(s[i]) >>)
       ELSE HTTPException("get", id, 404, "Complaint not found"))

\* update_complaint_status when modified_count is 0
update_not_modified(id) ==
  except_Exception(HTTPException("update", id, 404, "Complaint not found"))

\* update_complaint_status after update_one modified a document: the
\* read-back find_one on collection s and complaint_helper of its result
update_read_back(s, id) ==
  LET i == find_one(s, id)
  IN except_Exception(
       IF i # 0 THEN Return("update", id, << complaint_helper(s[i]) >>)
       ELSE TypeError("update", id))

\* delete_complaint's reply, given deleted_count
delete_complaint_result(id, deleted_count) ==
  except_Exception(
    IF deleted_count # 0 THEN Return("delete", id, << >>)
    ELSE HTTPException("delete", id, 404, "Complaint not found"))

\* get_all_complaints: complaint_helper of every document, in the order
\* the cursor yields them
get_all_complaints_result(s) ==
  except_Exception(
    Return("list", 0, [i \in 1..Len(s) |-> complaint_helper(s[i])]))

(* ----------------------------- statistics ----------------------------- *)

\* milliseconds in an hour, the divisor of the conversion to hours
MsPerHour == 3600000

\* the filter taking every complaint that is no longer "Pending"
resolved_complaints_not_pending(s) ==
  SelectSeq(s, LAMBDA c : c.status # "Pending")

\* [c for c in all_complaints if c["status"] == "Resolved"]
resolved_complaints(s) ==
  SelectSeq(s, LAMBDA c : c.status = "Resolved")

\* complaint.get("resolved") and complaint.get("submitted"): both present
\* and truthy, that is neither None nor 0
has_both_times(c) ==
  /\ c.resolved # None
  /\ c.resolved[1] # 0
  /\ c.submitted # 0

\* total_time after the loop over resolved_complaints
RECURSIVE total_time(_)
total_time(rs) ==
  IF rs = << >> THEN 0
  ELSE (IF has_both_times(Head(rs))
        THEN Head(rs).resolved[1] - Head(rs).submitted
        ELSE 0) + total_time(Tail(rs))

\* total_time / len(resolved_complaints) in milliseconds, as the fraction
\* num / den; 0 when there is no resolved complaint or total_time is not
\* positive
avg_resolution_ms(s) ==
  LET rs == resolved_complaints(s)
  IN IF rs # << >> /\ total_time(rs) > 0
     THEN [num |-> total_time(rs), den |-> Len(rs)]
     ELSE [num |-> 0, den |-> 1]

\* n / d rounded to the nearest integer, ties to even (n >= 0, d > 0)
RoundHalfEven(n, d) ==
  LET q == n \div d
      rem == n % d
  IN IF 2 * rem < d THEN q
     ELSE IF 2 * rem > d THEN q + 1
     ELSE IF q % 2 = 0 THEN q ELSE q + 1

\* round(avg_resolution, 1) with avg_resolution in hours, in tenths of an
\* hour
avgResolution(s) ==
  LET a == avg_resolution_ms(s)
  IN RoundHalfEven(10 * a.num, a.den * MsPerHour)

\* StatsResponse of get_dashboard_stats on collection s
StatsResponse(s) ==
  LET total == Len(s)
      resolved_count == Len(resolved_complaints(s))
      open_count == total - resolved_count
  IN [total |-> total, open |-> open_count, resolved |-> resolved_count,
      avgResolution |-> avgResolution(s)]

get_dashboard_stats_result(s) ==
  except_Exception(Return("stats", 0, << StatsResponse(s) >>))

\* the distinct suspended requests
InFlight == BagToSet(inflight)

\* the suspended requests with r added, and with one r taken away
Suspend(fl, r) == fl (+) SetToBag({r})

Finish(fl, r) == fl (-) SetToBag({r})

(* ------------------------------ actions ------------------------------- *)

Init ==
  /\ store = << >>
  /\ clock = 1
  /\ inflight = EmptyBag
  /\ nreq = 0
  /\ issued = << >>
  /\ reply = NoReply

\* time passes
Tick ==
  /\ clock < MaxClock
  /\ clock' = clock + 1
  /\ UNCHANGED << store, inflight, nreq, issued, reply >>

\* create_complaint up to the await of insert_one: get_next_complaint_id
\* has read the collection, the clock is read and complaint_doc is built
CreateFindMax(inp) ==
  /\ nreq < MaxReqs
  /\ nreq' = nreq + 1
  /\ inflight' = Suspend(inflight,
       [pc |-> "insert_one",
        id |-> get_next_complaint_id(store),
        doc |-> << complaint_doc(get_next_complaint_id(store), inp, clock) >>,
        data |-> << >>])
  /\ UNCHANGED << store, clock, issued, reply >>

\* create_complaint: insert_one takes effect and the document is returned
\* (result.inserted_id is the _id the driver generated, never falsy, so
\* the "Failed to create complaint" raise is not reached)
CreateInsert(r) ==
  /\ r.pc = "insert_one"
  /\ store' = insert_one(store, r.doc[1], Len(issued) + 1)
  /\ issued' = Append(issued, r.id)
  /\ reply' = except_Exception(
                Return("create", r.id, << complaint_helper(r.doc[1]) >>))
  /\ inflight' = Finish(inflight, r)
  /\ UNCHANGED << clock, nreq >>

\* update_complaint_status up to the await of update_one: update_data is
\* built, reading the clock when the new status is "Resolved"
UpdateBegin(id, status) ==
  /\ nreq < MaxReqs
  /\ nreq' = nreq + 1
  /\ inflight' = Suspend(inflight,
       [pc |-> "update_one", id |-> id,
        doc |-> << >>, data |-> << update_data(status, clock) >>])
  /\ UNCHANGED << store, clock, issued, reply >>

\* update_complaint_status: update_one takes effect; with modified_count 0
\* the handler raises, otherwise it awaits the read-back find_one
UpdateWrite(r) ==
  /\ r.pc = "update_one"
  /\ store' = update_one(store, r.id, r.data[1])
  /\ IF modified_count(store, r.id, r.data[1]) # 0
     THEN /\ inflight' = Suspend(Finish(inflight, r),
                                  [r EXCEPT !.pc = "find_one"])
          /\ reply' = reply
     ELSE /\ inflight' = Finish(inflight, r)
          /\ reply' = update_not_modified(r.id)
  /\ UNCHANGED << clock, nreq, issued >>

\* update_complaint_status: the read-back find_one and the return
UpdateReadBack(r) ==
  /\ r.pc = "find_one"
  /\ reply' = update_read_back(store, r.id)
  /\ inflight' = Finish(inflight, r)
  /\ UNCHANGED << store, clock, nreq, issued >>

\* delete_complaint
delete_complaint(id) ==
  /\ nreq < MaxReqs
  /\ nreq' = nreq + 1
  /\ store' = delete_one(store, id)
  /\ reply' = delete_complaint_result(id, IF Has(store, id) THEN 1 ELSE 0)
  /\ UNCHANGED << clock, inflight, issued >>

\* get_complaint
get_complaint(id) ==
  /\ nreq < MaxReqs
  /\ nreq' = nreq + 1
  /\ reply' = get_complaint_result(store, id)
  /\ UNCHANGED << store, clock, inflight, issued >>

\* get_all_complaints: the cursor of collection.find() yields the whole
\* collection in its first batch
get_all_complaints ==
  /\ nreq < MaxReqs
  /\ nreq' = nreq + 1
  /\ reply' = get_all_complaints_result(store)
  /\ UNCHANGED << store, clock, inflight, issued >>

\* get_dashboard_stats: one read of the whole collection, then the counts
get_dashboard_stats ==
  /\ nreq < MaxReqs
  /\ nreq' = nreq + 1
  /\ reply' = get_dashboard_stats_result(store)
  /\ UNCHANGED << store, clock, inflight, issued >>

\* a request arrives and runs to its first await (or, for the handlers
\* with a single collection operation, through it)
Accept ==
  \/ \E inp \in Inputs : CreateFindMax(inp)
  \/ \E id \in Ids, st \in Statuses : UpdateBegin(id, st)
  \/ \E id \in Ids : delete_complaint(id)
  \/ \E id \in Ids : get_complaint(id)
  \/ get_all_complaints
  \/ get_dashboard_stats

\* a suspended request's awaited operation completes and it runs on
Resume ==
  \E r \in InFlight :
    \/ CreateInsert(r)
    \/ UpdateWrite(r)
    \/ UpdateReadBack(r)

\* requests are handled concurrently
Next == Tick \/ Accept \/ Resume

Spec == Init /\ [][Next]_vars

\* requests are handled one after another: a request is accepted only when
\* none is in flight
SerialNext == Tick \/ (inflight = EmptyBag /\ Accept) \/ Resume

SpecSerial == Init /\ [][SerialNext]_vars

(* ------------------------------ claims -------------------------------- *)

\* C1: get_complaint, update_complaint_status and delete_complaint, run on
\* an id that no stored complaint has, reply 404 (never 500, never 200).
C1_AbsentIdIsNotFound ==
  [][ \A id \in Ids :
        ~Has(store, id) =>
          /\ get_complaint(id) => reply'.code = 404
          /\ delete_complaint(id) => reply'.code = 404
          /\ \A r \in InFlight :
               (r.id = id /\ UpdateWrite(r)) => reply'.code = 404 ]_vars

\* C2: with requests handled one after another, update_complaint_status on
\* a stored id, for any new status (the current one included), does not
\* end in an error at update_one, leaves the document with the status and
\* resolved of update_data, and replies 200 with that record.
C2_UpdateOfStoredIdSucceeds ==
  [][ \A r \in InFlight :
        /\ (UpdateWrite(r) /\ Has(store, r.id)) =>
             /\ BagIn([r EXCEPT !.pc = "find_one"], inflight')
             /\ store'[find_one(store', r.id)].status = r.data[1].status
             /\ store'[find_one(store', r.id)].resolved = r.data[1].resolved
        /\ UpdateReadBack(r) =>
             /\ reply'.code = 200
             /\ reply'.body # << >>
             /\ reply'.body[1].id = r.id
             /\ reply'.body[1].status = r.data[1].status
             /\ reply'.body[1].resolved = r.data[1].resolved ]_vars

\* C3: with requests handled one after another, no id is assigned twice by
\* create_complaint, also after the complaint that held it was deleted.
C3_IdNeverReused ==
  \A i, j \in 1..Len(issued) : i # j => issued[i] # issued[j]

\* C4: with requests handled concurrently, no two stored complaints have
\* the same id.
C4_StoredIdsUnique ==
  \A i, j \in 1..Len(store) : i # j => store[i].id # store[j].id

\* C5: with requests handled one after another and nothing deleted so far,
\* the k-th create_complaint is assigned id k, and the id it returns is
\* the id it was assigned.
C5_SerialCreatesCountFromOne ==
  /\ Len(store) = Len(issued) =>
       /\ \A k \in 1..Len(issued) : issued[k] = k
       /\ \A k \in 1..Len(store) : store[k].id = k
  /\ (reply.op = "create" /\ reply.code = 200) =>
       reply.body[1].id = issued[Len(issued)]

C5_Witness ==
  /\ Len(issued) >= 2
  /\ Len(store) = Len(issued)
  /\ reply.op = "create"
  /\ reply.code = 200
  /\ reply.body[1].id = Len(issued)

\* C6: in every reachable state, under any interleaving of requests, every
\* stored complaint has resolved non-null exactly when its status is
\* "Resolved".
C6_ResolvedIffStatusResolved ==
  \A i \in 1..Len(store) :
    (store[i].resolved # None) <=> (store[i].status = "Resolved")

\* a complaint that a replied update made "Resolved" has since been updated
\* to another status, and its resolved is null again
C6_Witness ==
  /\ reply.op = "update"
  /\ reply.code = 200
  /\ reply.body[1].status = "Resolved"
  /\ reply.body[1].resolved # None
  /\ \E i \in 1..Len(store) :
       /\ store[i].id = reply.id
       /\ store[i].submitted = reply.body[1].submitted
       /\ store[i].status = "In Progress"
       /\ store[i].resolved = None

\* C7: the clock never decreasing, every stored complaint whose resolved is
\* non-null has submitted <= resolved.
C7_SubmittedBeforeResolved ==
  \A i \in 1..Len(store) :
    store[i].resolved # None => store[i].submitted <= store[i].resolved[1]

\* C8: a delete_complaint(id) that replies 200 leaves no stored complaint
\* with that id, and a get_complaint(id) that follows it with no create in
\* between replies 404.
C8_GetAfterDeleteIsNotFound ==
  [][ \A id \in Ids :
        /\ (delete_complaint(id) /\ reply'.code = 200) => ~Has(store', id)
        /\ (/\ reply.op = "delete"
            /\ reply.code = 200
            /\ reply.id = id
            /\ get_complaint(id)) => reply'.code = 404 ]_vars

\* C9: when create_complaint or update_complaint_status replies 200 with a
\* record, get_complaint for that record's id, run on the collection as it
\* is right after that reply, replies 200 with an equal record.
C9_GetReturnsWhatWasReturned ==
  [][ \A r \in InFlight :
        ((CreateInsert(r) \/ UpdateReadBack(r)) /\ reply'.code = 200) =>
          /\ get_complaint_result(store', reply'.body[1].id).code = 200
          /\ get_complaint_result(store', reply'.body[1].id).body
               = reply'.body ]_vars

\* C10: no step changes the id, hostel, room, type, description or
\* submitted of a complaint that stays stored; update_one changes at most
\* one document, the first with the requested id, and adds or removes
\* none; the other steps of update_complaint_status leave the collection
\* as it is.
C10_UpdateFrame ==
  [][ /\ \A i \in 1..Len(store), j \in 1..Len(store') :
           store[i].oid = store'[j].oid =>
             /\ store'[j].id = store[i].id
             /\ store'[j].hostel = store[i].hostel
             /\ store'[j].room = store[i].room
             /\ store'[j].type = store[i].type
             /\ store'[j].description = store[i].description
             /\ store'[j].submitted = store[i].submitted
      /\ \A r \in InFlight :
           /\ UpdateWrite(r) =>
                /\ Len(store') = Len(store)
                /\ \A i \in 1..Len(store) :
                     store'[i] # store[i] =>
                       /\ i = find_one(store, r.id)
                       /\ store'[i].oid = store[i].oid
           /\ UpdateReadBack(r) => store' = store ]_vars

\* an update has rewritten one complaint while another is stored
C10_Witness ==
  \E i, j \in 1..Len(store) :
    /\ i # j
    /\ store[i].status = "Resolved"
    /\ store[i].resolved # None
    /\ store[j].status = "Pending"

\* C11: create_complaint builds its record from the clock reading taken
\* during the call and the four input fields unchanged, and on success
\* stores and returns that record with status "Pending" and resolved null,
\* whatever the collection holds and whatever the input.
C11_CreateYieldsPending ==
  [][ /\ \A inp \in Inputs :
           CreateFindMax(inp) =>
             \E r \in BagToSet(inflight') :
               /\ CopiesIn(r, inflight') = CopiesIn(r, inflight) + 1
               /\ r.doc[1].submitted = clock
               /\ r.doc[1].hostel = inp.hostel
               /\ r.doc[1].room = inp.room
               /\ r.doc[1].type = inp.type
               /\ r.doc[1].description = inp.description
      /\ \A r \in InFlight :
           CreateInsert(r) =>
             /\ Len(store') = Len(store) + 1
             /\ \A i \in 1..Len(store) : store'[i] = store[i]
             /\ reply'.code = 200
             /\ reply'.body = << complaint_helper(store'[Len(store')]) >>
             /\ reply'.body[1].status = "Pending"
             /\ reply'.body[1].resolved = None
             /\ reply'.body[1].submitted = r.doc[1].submitted
             /\ reply'.body[1].submitted <= clock
             /\ reply'.body[1].hostel = r.doc[1].hostel
             /\ reply'.body[1].room = r.doc[1].room
             /\ reply'.body[1].type = r.doc[1].type
             /\ reply'.body[1].description = r.doc[1].description ]_vars

\* a create accepted after the clock advanced has replied, on a collection
\* that already held a complaint, and its record is stored
C11_Witness ==
  /\ reply.op = "create"
  /\ reply.code = 200
  /\ reply.body[1].submitted > 1
  /\ reply.body[1].status = "Pending"
  /\ reply.body[1].resolved = None
  /\ Len(store) >= 2
  /\ complaint_helper(store[Len(store)]) = reply.body[1]

\* C12: get_dashboard_stats returns total = the number of stored
\* complaints, resolved = the number whose status is "Resolved" and
\* open = total - resolved = the number whose status is not "Resolved";
\* on an empty collection it returns 0, 0, 0 and average resolution 0.
C12_StatsCounts ==
  [][ get_dashboard_stats =>
        LET R == { i \in 1..Len(store) : store[i].status = "Resolved" }
            b == reply'.body[1]
        IN /\ reply'.code = 200
           /\ b.total = Len(store)
           /\ b.resolved = Cardinality(R)
           /\ b.open = b.total - b.resolved
           /\ b.open = Cardinality((1..Len(store)) \ R)
           /\ Len(store) = 0 =>
                b = [total |-> 0, open |-> 0, resolved |-> 0,
                     avgResolution |-> 0] ]_vars

\* the statistics of a collection holding one complaint, which is resolved
C12_Witness ==
  /\ reply.op = "stats"
  /\ reply.code = 200
  /\ reply.body[1].total = 1
  /\ reply.body[1].resolved = 1
  /\ reply.body[1].open = 0
  /\ Len(store) = 1
  /\ store[1].status = "Resolved"

\* the sum of resolved - submitted over the documents of s at the
\* positions in I
RECURSIVE SumOfDeltas(_, _)
SumOfDeltas(s, I) ==
  IF I = {} THEN 0
  ELSE LET i == CHOOSE k \in I : TRUE
       IN (s[i].resolved[1] - s[i].submitted) + SumOfDeltas(s, I \ {i})

\* C13: the average resolution get_dashboard_stats computes, before the
\* conversion to hours and the rounding, is the sum of resolved - submitted
\* over the "Resolved" complaints with both times present and non-zero,
\* divided by the number of all "Resolved" complaints; it is 0 when no
\* complaint is "Resolved" or that sum is zero.
C13_AverageIsSumOverResolvedCount ==
  [][ get_dashboard_stats =>
        LET R == { i \in 1..Len(store) : store[i].status = "Resolved" }
            V == { i \in R : /\ store[i].resolved # None
                             /\ store[i].resolved[1] # 0
                             /\ store[i].submitted # 0 }
            sum == SumOfDeltas(store, V)
            a == avg_resolution_ms(store)
        IN IF R = {} \/ sum = 0
           THEN a.num = 0
           ELSE a.num * Cardinality(R) = sum * a.den ]_vars

\* C14: the read-back of an update_complaint_status whose update_one
\* modified a document replies 200 with a record of the requested id whose
\* status and resolved are those the request wrote, whatever other
\* requests did between the write and the read-back.
C14_UpdateReturnsOwnWrite ==
  [][ \A r \in InFlight :
        UpdateReadBack(r) =>
          /\ reply'.code = 200
          /\ reply'.body # << >>
          /\ reply'.body[1].id = r.id
          /\ reply'.body[1].status = r.data[1].status
          /\ reply'.body[1].resolved = r.data[1].resolved ]_vars

\* C15: an update_complaint_status or delete_complaint whose id matches no
\* stored complaint, and any that ends without success at its write,
\* leaves the collection as it is and does not reply 200; get_complaint,
\* get_all_complaints, get_dashboard_stats and the read-back of an update
\* never change the collection.
C15_FailedCallsChangeNothing ==
  [][ /\ \A r \in InFlight :
           /\ (UpdateWrite(r) /\ ~Has(store, r.id)) =>
                /\ store' = store
                /\ inflight' = Finish(inflight, r)
                /\ reply'.code # 200
           /\ (UpdateWrite(r) /\ inflight' = Finish(inflight, r)) =>
                /\ store' = store
                /\ reply'.code # 200
           /\ UpdateReadBack(r) => store' = store
      /\ \A id \in Ids :
           /\ (delete_complaint(id) /\ ~Has(store, id)) =>
                /\ store' = store
                /\ reply'.code # 200
           /\ (delete_complaint(id) /\ reply'.code # 200) => store' = store
           /\ get_complaint(id) => store' = store
      /\ get_all_complaints => store' = store
      /\ get_dashboard_stats => store' = store ]_vars

\* an update of an id that no stored complaint has was answered with an
\* error, on a collection that holds a complaint
C15_Witness ==
  /\ reply.op = "update"
  /\ reply.code # 200
  /\ Len(store) >= 1
  /\ ~Has(store, reply.id)
  /\ inflight = EmptyBag

==========================================================================
